---- MODULE Spec2Model ----
(***************************************************************************)
(* A model of collage (src/src/main.rs): a command-line program that loads  *)
(* the images of a directory, resizes them, lays them out in a column       *)
(* (Portrait) or a row (Landscape) on a canvas and saves the canvas as      *)
(* collage_<n>.png.                                                         *)
(*                                                                          *)
(* Representation of numbers.  TLC's integers are 32-bit signed, so a u32   *)
(* is held as two 16-bit limbs <<lo, hi>> (value lo + hi * 65536) and every  *)
(* u32 operation returns the wrapped value together with an overflow flag:  *)
(* a build with overflow checks panics on the flag, a build without them    *)
(* continues with the wrapped value.  An f32 is held as <<m, e>> (value     *)
(* m * 2^e, m < 2^24, m odd or zero), rounded to nearest-even as IEEE 754   *)
(* does.  Strings are sequences of one-character strings, paths sequences   *)
(* of bytes.                                                                *)
(***************************************************************************)
EXTENDS Integers, Sequences, FiniteSets, TLC

VARIABLES
    pc,              \* position of main(): the next step to run
    build,           \* "debug" (overflow checks on) or "release" (wrapping)
    app,             \* the parsed command line (struct App)
    walk,            \* the directory as WalkDir enumerates it
    downloads,       \* the numbers n for which collage_<n>.png exists
    paths,           \* Vec<PathBuf>, sorted
    raw_megabytes,   \* u64 accumulator of main
    images,          \* Vec<DynamicImage>: the <<width, height>> of each
    input,           \* the line read from stdin at the prompt
    image_width,     \* the resolved target width
    image_height,    \* the resolved target height
    canvas,          \* out_image: its size and the images copied onto it
    cursor,          \* the copy loop: index of the next image, x and y
    num,             \* the suffix the output writer is probing
    saved,           \* the suffix of the file the collage was saved to
    exit,            \* how the process ended
    stdin,           \* the line waiting on standard input
    download_dir,    \* whether the user's downloads directory can be resolved
    unit             \* the call of a stand-alone function under test

vars == <<pc, build, app, walk, downloads, paths, raw_megabytes, images, input,
          image_width, image_height, canvas, cursor, num, saved, exit, stdin,
          download_dir, unit>>

(***************************************************************************)
(* Sequences.                                                               *)
(***************************************************************************)
RECURSIVE SumSeq(_)
SumSeq(s) == IF s = <<>> THEN 0 ELSE Head(s) + SumSeq(Tail(s))

Range(s) == {s[i] : i \in 1..Len(s)}

\* All sequences over S of length at most n.
SeqsUpTo(S, n) == UNION {[1..k -> S] : k \in 0..n}

(***************************************************************************)
(* u32 arithmetic on 16-bit limbs.                                          *)
(***************************************************************************)
Limb == 65536

U32(n) == <<n % Limb, n \div Limb>>

U32Max == <<Limb - 1, Limb - 1>>

\* A u32 small enough for TLC's integers, as an integer.
ToInt(a) == a[1] + a[2] * Limb

U32Le(a, b) == a[2] < b[2] \/ (a[2] = b[2] /\ a[1] <= b[1])

\* An operand of checked arithmetic: a value and whether computing it overflowed.
Val(a) == [v |-> a, ovf |-> FALSE]

\* x + y on u32.
U32Add(x, y) ==
    LET s0 == x.v[1] + y.v[1]
        s1 == x.v[2] + y.v[2] + s0 \div Limb
    IN  [v |-> <<s0 % Limb, s1 % Limb>>,
         ovf |-> x.ovf \/ y.ovf \/ s1 >= Limb]

\* x - y on u32.
U32Sub(x, y) ==
    LET d0 == x.v[1] - y.v[1]
        b0 == IF d0 < 0 THEN 1 ELSE 0
        d1 == x.v[2] - y.v[2] - b0
    IN  [v |-> <<(d0 + Limb) % Limb, (d1 + Limb) % Limb>>,
         ovf |-> x.ovf \/ y.ovf \/ d1 < 0]

\* x * k on u32 for a multiplier k of at most 15 bits.
U32MulSmall(x, k) ==
    LET p0 == x.v[1] * k
        p1 == x.v[2] * k + p0 \div Limb
    IN  [v |-> <<p0 % Limb, p1 % Limb>>, ovf |-> x.ovf \/ p1 >= Limb]

\* x * y on u32: y taken byte by byte, so that no product leaves TLC's range.
U32Mul(x, y) ==
    LET b0 == y.v[1] % 256
        b1 == y.v[1] \div 256
        b2 == y.v[2] % 256
        b3 == y.v[2] \div 256
        Shl8(t) == U32MulSmall(t, 256)
        t0 == U32MulSmall(x, b0)
        t1 == Shl8(U32MulSmall(x, b1))
        t2 == Shl8(Shl8(U32MulSmall(x, b2)))
        t3 == Shl8(Shl8(Shl8(U32MulSmall(x, b3))))
        r  == U32Add(U32Add(t0, t1), U32Add(t2, t3))
    IN  [v |-> r.v, ovf |-> r.ovf \/ y.ovf]

(***************************************************************************)
(* f32 arithmetic: <<m, e>> is m * 2^e.                                     *)
(***************************************************************************)
MantBits == 24

Pow2(k) == 2 ^ k

\* Number of bits of n (0 for 0), for n within TLC's range.
BitLen(n) == IF n = 0 THEN 0 ELSE CHOOSE k \in 1..31 : n \div Pow2(k - 1) = 1

\* The canonical form: trailing zero bits of the significand moved to the exponent.
F32Norm(f) ==
    IF f[1] = 0 THEN <<0, 0>>
    ELSE LET z == CHOOSE k \in 0..30 : f[1] % Pow2(k) = 0 /\ (f[1] \div Pow2(k)) % 2 = 1
         IN  <<f[1] \div Pow2(z), f[2] + z>>

\* Round q * 2^e, plus a remainder below the last bit of q that is exactly half
\* (half), more than half (half and sticky) or less (sticky alone), to the nearest
\* significand of MantBits bits, ties to even.  q has at most MantBits bits.
F32RoundBits(q, e, half, sticky) ==
    LET up == half /\ (sticky \/ q % 2 = 1)
    IN  F32Norm(<<IF up THEN q + 1 ELSE q, e>>)

\* Round the integer n * 2^e (n within TLC's range) to an f32.
F32Round(n, e) ==
    LET k == BitLen(n) - MantBits
    IN  IF k <= 0 THEN F32Norm(<<n, e>>)
        ELSE LET q == n \div Pow2(k)
                 r == n % Pow2(k)
             IN  F32RoundBits(q, e + k, r >= Pow2(k - 1),
                              r % Pow2(k - 1) # 0 )

\* `n as f32` for a u32 held as an integer.
F32FromU32(n) == F32Round(n, 0)

\* One step of the long division by b: k more quotient bits.
\* qr = <<quotient so far, remainder>>, remainder < b.
DivStep(qr, b, k) ==
    <<qr[1] * Pow2(k) + (qr[2] * Pow2(k)) \div b, (qr[2] * Pow2(k)) % b>>

\* The first MantBits bits of a / b, for b <= a < 2b, and the remainder:
\* a * 2^(MantBits-1) = quotient * b + remainder.  b has at most MantBits bits,
\* so a remainder shifted by 6 bits stays within TLC's range.
DivBits(a, b) ==
    DivStep(DivStep(DivStep(DivStep(<<a \div b, a % b>>, b, 6), b, 6), b, 6), b, 5)

\* x / y on f32 (x, y finite, y # 0).
F32Div(x, y) ==
    IF x[1] = 0 THEN <<0, 0>>
    ELSE
    LET la == BitLen(x[1])
        lb == BitLen(y[1])
        \* align the significands to the same bit length
        a0 == IF la < lb THEN x[1] * Pow2(lb - la) ELSE x[1]
        b0 == IF lb < la THEN y[1] * Pow2(la - lb) ELSE y[1]
        e0 == (x[2] - y[2]) + (la - lb)
        \* make b <= a < 2b
        a  == IF a0 < b0 THEN 2 * a0 ELSE a0
        e1 == IF a0 < b0 THEN e0 - 1 ELSE e0
        d  == DivBits(a, b0)
    IN  F32RoundBits(d[1], e1 - (MantBits - 1), 2 * d[2] >= b0,
                     2 * d[2] # b0 /\ d[2] # 0)

\* x * y on f32: the exact 48-bit product in two halves, then rounded.
F32Mul(x, y) ==
    LET H  == Pow2(12)
        ah == x[1] \div H
        al == x[1] % H
        bh == y[1] \div H
        bl == y[1] % H
        mid == ah * bl + al * bh
        lo0 == (mid % H) * H + al * bl
        W  == Pow2(MantBits)
        lo == lo0 % W
        hi == ah * bh + mid \div H + lo0 \div W
        k  == BitLen(hi)
    IN  IF hi = 0 THEN F32Round(lo, x[2] + y[2])
        ELSE LET q == hi * Pow2(MantBits - k) + lo \div Pow2(k)
                 r == lo % Pow2(k)
             IN  F32RoundBits(q, x[2] + y[2] + k, r >= Pow2(k - 1),
                              r % Pow2(k - 1) # 0)

\* `f as u32`: truncation toward zero (the values of this model stay far below
\* the saturation at u32::MAX).
F32ToU32(f) ==
    IF f[2] >= 0 THEN f[1] * Pow2(f[2])
    ELSE IF -f[2] >= MantBits THEN 0
    ELSE f[1] \div Pow2(-f[2])

(***************************************************************************)
(* Strings and hex_to_color.                                                *)
(***************************************************************************)
LowerHex == <<"0", "1", "2", "3", "4", "5", "6", "7", "8", "9",
              "a", "b", "c", "d", "e", "f">>

UpperHex == <<"0", "1", "2", "3", "4", "5", "6", "7", "8", "9",
              "A", "B", "C", "D", "E", "F">>

Err == -1

\* char::to_digit(16): the digit's value, or Err.
ToDigit16(c) ==
    IF \E i \in 1..16 : LowerHex[i] = c
    THEN (CHOOSE i \in 1..16 : LowerHex[i] = c) - 1
    ELSE IF \E i \in 1..16 : UpperHex[i] = c
    THEN (CHOOSE i \in 1..16 : UpperHex[i] = c) - 1
    ELSE Err

\* The digit loop of from_str_radix for u8: acc * 16 + digit, checked.
RECURSIVE ParseDigits16(_, _)
ParseDigits16(digits, acc) ==
    IF digits = <<>> THEN acc
    ELSE LET d == ToDigit16(Head(digits))
             next == acc * 16 + d
         IN  IF d = Err \/ next > 255 THEN Err
             ELSE ParseDigits16(Tail(digits), next)

\* u8::from_str_radix(src, 16): the value, or Err.  An empty string and a lone
\* sign are errors; a leading '+' is skipped; a leading '-' is left in place for
\* an unsigned type and fails as a digit.
U8FromStrRadix16(src) ==
    IF src = <<>> THEN Err
    ELSE IF Len(src) = 1 /\ Head(src) \in {"+", "-"} THEN Err
    ELSE IF Head(src) = "+" THEN ParseDigits16(Tail(src), 0)
    ELSE ParseDigits16(src, 0)

\* str::strip_prefix('#').map_or(hex, |stripped| stripped)
StripHash(hex) == IF hex # <<>> /\ Head(hex) = "#" THEN Tail(hex) ELSE hex

\* hex_to_color: Ok(Rgba([red, green, blue, 255])) or the error of the first
\* check that fails.  The characters of the model are ASCII, so the byte length
\* the code tests is the length of the sequence.
hex_to_color(hex) ==
    LET hex_code == StripHash(hex)
        red   == U8FromStrRadix16(SubSeq(hex_code, 1, 2))
        green == U8FromStrRadix16(SubSeq(hex_code, 3, 4))
        blue  == U8FromStrRadix16(SubSeq(hex_code, 5, 6))
    IN  IF Len(hex_code) # 6 THEN [ok |-> FALSE, err |-> "Invalid hex code length"]
        ELSE IF red = Err THEN [ok |-> FALSE, err |-> "Invalid hex code for red channel"]
        ELSE IF green = Err THEN [ok |-> FALSE, err |-> "Invalid hex code for green channel"]
        ELSE IF blue = Err THEN [ok |-> FALSE, err |-> "Invalid hex code for blue channel"]
        ELSE [ok |-> TRUE, rgba |-> <<red, green, blue, 255>>]

\* char::is_whitespace, on the characters of the model.
IsWhitespace(c) == c \in {" ", "\n", "\r", "\t"}

\* str::trim: leading and trailing whitespace removed.
RECURSIVE TrimStart(_)
TrimStart(s) ==
    IF s # <<>> /\ IsWhitespace(Head(s)) THEN TrimStart(Tail(s)) ELSE s

RECURSIVE TrimEnd(_)
TrimEnd(s) ==
    IF s # <<>> /\ IsWhitespace(s[Len(s)]) THEN TrimEnd(SubSeq(s, 1, Len(s) - 1)) ELSE s

Trim(s) == TrimEnd(TrimStart(s))

\* char::to_lowercase, on the characters of the model.
LowerChar(c) ==
    CASE c = "Y" -> "y"
      [] c = "E" -> "e"
      [] c = "S" -> "s"
      [] c = "N" -> "n"
      [] OTHER -> c

\* A conversion that keeps the case: with it the answer is compared
\* case-sensitively.
KeepCase(s) == s

\* str::to_lowercase
ToLowercase(s) == [i \in 1..Len(s) |-> LowerChar(s[i])]

(***************************************************************************)
(* Options, paths and the sort of the directory listing.                    *)
(***************************************************************************)
\* Option<T>: None is the empty sequence, Some(x) the sequence <<x>>.
Some(x) == <<x>>

IsSome(o) == o # <<>>

\* Option::unwrap_or
UnwrapOr(o, default) == IF IsSome(o) THEN o[1] ELSE default

\* Path::to_string_lossy, as the bytes of the resulting string.  The names of
\* the model hold ASCII bytes and the bytes 0xFE and 0xFF, which are never valid
\* UTF-8: each becomes U+FFFD, whose encoding is EF BF BD.
RECURSIVE ToStringLossy(_)
ToStringLossy(path) ==
    IF path = <<>> THEN <<>>
    ELSE (IF Head(path) < 128 THEN <<Head(path)>> ELSE <<239, 191, 189>>)
         \o ToStringLossy(Tail(path))

\* Ord for str: a.cmp(b) = Less or Equal, byte by byte, a prefix first.
RECURSIVE StrLe(_, _)
StrLe(a, b) ==
    IF a = <<>> THEN TRUE
    ELSE IF b = <<>> THEN FALSE
    ELSE IF Head(a) # Head(b) THEN Head(a) < Head(b)
    ELSE StrLe(Tail(a), Tail(b))

\* The comparison closure of sort_by: a.to_string_lossy().cmp(&b.to_string_lossy())
\* is not Greater.
PathLe(a, b) == StrLe(ToStringLossy(a), ToStringLossy(b))

\* One insertion of a stable sort: p goes behind every element that is not
\* greater than it.
RECURSIVE InsertPath(_, _)
InsertPath(sorted, p) ==
    IF sorted = <<>> THEN <<p>>
    ELSE IF PathLe(Head(sorted), p) THEN <<Head(sorted)>> \o InsertPath(Tail(sorted), p)
    ELSE <<p>> \o sorted

\* The listing left in the order of enumeration.
EnumerationOrder(ps) == ps

\* slice::sort_by with the closure above: a stable sort.
RECURSIVE SortPaths(_)
SortPaths(ps) ==
    IF ps = <<>> THEN <<>>
    ELSE InsertPath(SortPaths(SubSeq(ps, 1, Len(ps) - 1)), ps[Len(ps)])

(***************************************************************************)
(* prepare_image.  An image is its <<width, height>>.                       *)
(***************************************************************************)
\* DynamicImage::resize_exact: an image of exactly the size asked for.
resize_exact(image, w, h) == <<w, h>>

prepare_image(image, width, height, a) ==
    IF ~a.preserve_aspect_ratio THEN resize_exact(image, width, height)
    ELSE
    LET aspect_ratio == F32Div(F32FromU32(image[1]), F32FromU32(image[2]))
        w == IF a.orientation = "Landscape"
             THEN F32ToU32(F32Mul(F32FromU32(height), aspect_ratio))
             ELSE width
        h == IF a.orientation = "Landscape"
             THEN height
             ELSE F32ToU32(F32Div(F32FromU32(width), aspect_ratio))
    IN  resize_exact(image, w, h)

(***************************************************************************)
(* The inputs: command lines, directories, the downloads directory, stdin.  *)
(***************************************************************************)
MaxEntries == 3      \* entries below the root of a scanned directory
MaxImages == 2       \* images of a directory of the layout runs
MaxFiles == 3        \* collage_<n>.png files that may exist beforehand
MaxLine == 3         \* characters of an answer, before the line end
MaxHexLen == 7       \* characters of a colour string
MaxDim == 8          \* width and height given to prepare_image alone

\* The clap defaults of struct App.
DefaultColor == <<"#", "f", "f", "f", "f", "f", "f">>

DefaultSpacing == 20

DefaultApp ==
    [image_width |-> <<>>, image_height |-> <<>>, orientation |-> "Portrait",
     top_margin |-> U32(0), left_margin |-> U32(0), spacing |-> U32(DefaultSpacing),
     background_color |-> DefaultColor, preserve_aspect_ratio |-> FALSE]

\* The command lines of the layout runs: small and very large margins and
\* spacings (2^31 and u32::MAX), target sizes given or left to the first image.
LayoutApps ==
    [image_width : {<<>>, <<1>>, <<100>>},
     image_height : {<<>>, <<50>>},
     orientation : {"Portrait", "Landscape"},
     top_margin : {U32(0), <<0, 32768>>},
     left_margin : {U32(0), U32(5), <<0, 32768>>},
     spacing : {U32(0), U32(10), U32Max},
     background_color : {DefaultColor},
     preserve_aspect_ratio : BOOLEAN]

\* Command lines with other colour strings.
ColorApps ==
    {[DefaultApp EXCEPT !.background_color = c] :
        c \in {DefaultColor, <<"0", "0", "8", "0", "F", "f">>, <<"f", "f", "f">>,
               <<"#", "g", "g", "g", "g", "g", "g">>, <<"+", "1", "+", "2", "+", "3">>}}

\* Paths are byte strings: the root "d", and below it the names "a", "aa", "b"
\* and two names that are not UTF-8.
Root == <<100>>

NameSeq == << <<97>>, <<97, 97>>, <<98>>, <<254>>, <<255>> >>

Names == Range(NameSeq)

Child(name) == Root \o <<47>> \o name

\* What decoding the file of that name gives: every name its own image.
ImageOf(name) == <<CHOOSE i \in 1..Len(NameSeq) : NameSeq[i] = name, 1>>

\* An entry of the directory: its path, the length its metadata reports (None
\* when metadata() fails) and the image it decodes to (None when it does not).
Entry(name, len, img) == [path |-> Child(name), len |-> len, img |-> img]

RootEntry == [path |-> Root, len |-> Some(4096), img |-> <<>>]

InjectiveSeqs(S, k) == {f \in [1..k -> S] : \A i, j \in 1..k : i # j => f[i] # f[j]}

\* Directories that vary the order of enumeration and what decodes.
DirsOrder ==
    UNION {{<<RootEntry>> \o [i \in 1..k |->
                Entry(ns[i], Some(1000), IF dec[i] THEN ImageOf(ns[i]) ELSE <<>>)] :
            ns \in InjectiveSeqs(Names, k), dec \in [1..k -> BOOLEAN]} :
           k \in 0..MaxEntries}

\* File lengths around the threshold of 100 megabytes.
Lens == {<<>>, <<999999>>, <<50500000>>, <<100000001>>}

\* Directories that vary the lengths of the files and what decodes.
DirsSizes ==
    UNION {{<<RootEntry>> \o [i \in 1..k |->
                Entry(NameSeq[i], len[i], IF dec[i] THEN ImageOf(NameSeq[i]) ELSE <<>>)] :
            len \in [1..k -> Lens], dec \in [1..k -> BOOLEAN]} :
           k \in 0..MaxEntries}

\* The sizes of the source images of the layout runs.
SrcDims == {<<100, 100>>, <<1, 7>>, <<200, 100>>}

\* Directories of images only, for the layout runs.
DirsLayout ==
    UNION {{<<RootEntry>> \o [i \in 1..k |-> Entry(NameSeq[i], Some(1000), dims[i])] :
            dims \in [1..k -> SrcDims]} :
           k \in 0..MaxImages}

\* One image; and one image file of 101 megabytes.
DirOne == <<RootEntry, Entry(NameSeq[1], Some(1000), <<100, 100>>)>>

DirBig == <<RootEntry, Entry(NameSeq[1], Some(101000000), <<100, 100>>)>>

\* The lines read_line can return: no line end inside, one at the end unless
\* the input ended first.
AnswerChars == {"y", "Y", "e", "E", "s", "S", "n", " "}

Lines == {c \o t : c \in SeqsUpTo(AnswerChars, MaxLine), t \in {<<>>, <<"\n">>}}

Yes == <<"y", "\n">>

Running == [code |-> -1, how |-> "running"]

\* Everything main() has not touched yet.
Fresh ==
    /\ pc = "scan"
    /\ paths = <<>>
    /\ raw_megabytes = 0
    /\ images = <<>>
    /\ input = <<>>
    /\ image_width = 0
    /\ image_height = 0
    /\ canvas = <<>>
    /\ cursor = [i |-> 0, x |-> U32(0), y |-> U32(0)]
    /\ num = 0
    /\ saved = <<>>
    /\ exit = Running
    /\ unit = <<>>

\* Runs over varied directories, with the default command line.
InitLoader ==
    /\ Fresh
    /\ walk \in DirsOrder \cup DirsSizes \cup {<<>>}
    /\ app = DefaultApp
    /\ build \in {"debug", "release"}
    /\ stdin = Yes
    /\ downloads = {}
    /\ download_dir = TRUE

\* Runs that reach the prompt, with varied answers.
InitPrompt ==
    /\ Fresh
    /\ walk = DirBig
    /\ app = DefaultApp
    /\ build = "release"
    /\ stdin \in Lines
    /\ downloads = {}
    /\ download_dir = TRUE

\* Runs over varied command lines.
InitLayout ==
    /\ Fresh
    /\ walk \in DirsLayout
    /\ app \in LayoutApps
    /\ build \in {"debug", "release"}
    /\ stdin = Yes
    /\ downloads = {}
    /\ download_dir = TRUE

\* Runs over varied downloads directories and colour strings.
InitWriter ==
    /\ Fresh
    /\ walk = DirOne
    /\ app \in ColorApps
    /\ build = "release"
    /\ stdin = Yes
    /\ downloads \in SUBSET (0..MaxFiles - 1)
    /\ download_dir \in BOOLEAN

Init == InitLoader \/ InitPrompt \/ InitLayout \/ InitWriter

(***************************************************************************)
(* main(), step by step.                                                    *)
(***************************************************************************)
MegaByte == 1000000

PromptAbove == 100

\* What the file system holds at a path of the listing.
Lookup(path) == CHOOSE e \in Range(walk) : e.path = path

\* The loop over the sorted paths: the megabytes of every entry whose metadata
\* can be read, each rounded down, and the image of every entry that decodes.
RECURSIVE ScanLoop(_, _, _)
ScanLoop(ps, megabytes, imgs) ==
    IF ps = <<>> THEN <<megabytes, imgs>>
    ELSE LET e == Lookup(Head(ps))
             mb == IF IsSome(e.len) THEN megabytes + e.len[1] \div MegaByte ELSE megabytes
         IN  ScanLoop(Tail(ps), mb, IF IsSome(e.img) THEN Append(imgs, e.img) ELSE imgs)

\* Lines 120-137: the walk, the sort and the loop.
Scan ==
    /\ pc = "scan"
    /\ LET ps == SortPaths([i \in 1..Len(walk) |-> walk[i].path])
           r == ScanLoop(ps, 0, <<>>)
       IN  /\ paths' = ps
           /\ raw_megabytes' = r[1]
           /\ images' = r[2]
    /\ pc' = "check_size"
    /\ UNCHANGED <<build, app, walk, downloads, input, image_width, image_height, canvas,
                   cursor, num, saved, exit, stdin, download_dir, unit>>

\* Line 141: the condition of the prompt.
NeedsConfirmation(megabytes) == megabytes > PromptAbove

SizeSmall ==
    /\ pc = "check_size"
    /\ ~NeedsConfirmation(raw_megabytes)
    /\ pc' = "dims"
    /\ UNCHANGED <<build, app, walk, downloads, paths, raw_megabytes, images, input,
                   image_width, image_height, canvas, cursor, num, saved, exit, stdin,
                   download_dir, unit>>

SizeLarge ==
    /\ pc = "check_size"
    /\ NeedsConfirmation(raw_megabytes)
    /\ pc' = "prompt"
    /\ UNCHANGED <<build, app, walk, downloads, paths, raw_megabytes, images, input,
                   image_width, image_height, canvas, cursor, num, saved, exit, stdin,
                   download_dir, unit>>

\* Line 148: the match on input.trim().to_lowercase().
Accepts(line) == ToLowercase(Trim(line)) \in {<<"y">>, <<"y", "e", "s">>}

\* Lines 142-151: the line is read and accepted.
Proceed ==
    /\ pc = "prompt"
    /\ input' = Some(stdin)
    /\ Accepts(stdin)
    /\ pc' = "dims"
    /\ UNCHANGED <<build, app, walk, downloads, paths, raw_megabytes, images,
                   image_width, image_height, canvas, cursor, num, saved, exit, stdin,
                   download_dir, unit>>

\* Lines 142-156: the line is read and not accepted: return Ok(()).
Cancel ==
    /\ pc = "prompt"
    /\ input' = Some(stdin)
    /\ ~Accepts(stdin)
    /\ pc' = "done"
    /\ exit' = [code |-> 0, how |-> "cancelled"]
    /\ UNCHANGED <<build, app, walk, downloads, paths, raw_megabytes, images,
                   image_width, image_height, canvas, cursor, num, saved, stdin,
                   download_dir, unit>>

\* Lines 163-164: unwrap_or evaluates its argument, images[0], whether or not
\* the option holds a value.
SetDims ==
    /\ pc = "dims"
    /\ images # <<>>
    /\ image_width' = UnwrapOr(app.image_width, images[1][1])
    /\ image_height' = UnwrapOr(app.image_height, images[1][2])
    /\ pc' = "resize"
    /\ UNCHANGED <<build, app, walk, downloads, paths, raw_megabytes, images, input,
                   canvas, cursor, num, saved, exit, stdin, download_dir, unit>>

\* Line 163 on an empty vector: the index panics.
SetDimsPanic ==
    /\ pc = "dims"
    /\ images = <<>>
    /\ pc' = "done"
    /\ exit' = [code |-> 101, how |-> "panic: index out of bounds"]
    /\ UNCHANGED <<build, app, walk, downloads, paths, raw_megabytes, images, input,
                   image_width, image_height, canvas, cursor, num, saved, stdin,
                   download_dir, unit>>

\* Lines 169-172.
Resize ==
    /\ pc = "resize"
    /\ images' = [i \in 1..Len(images) |->
                    prepare_image(images[i], image_width, image_height, app)]
    /\ pc' = "canvas"
    /\ UNCHANGED <<build, app, walk, downloads, paths, raw_megabytes, input,
                   image_width, image_height, canvas, cursor, num, saved, exit, stdin,
                   download_dir, unit>>

\* iter().fold(0, |a, b| a + b.width()) for k = 1, b.height() for k = 2.
RECURSIVE FoldDims(_, _, _)
FoldDims(imgs, k, acc) ==
    IF imgs = <<>> THEN acc
    ELSE FoldDims(Tail(imgs), k, U32Add(acc, Val(U32(Head(imgs)[k]))))

\* Lines 181-198: the size of the output image, in u32 arithmetic.
CanvasSize(imgs, width, height, a) ==
    LET n == Val(U32(Len(imgs)))
        gaps == U32Mul(Val(a.spacing), U32Sub(n, Val(U32(1))))
        sides == U32Mul(Val(U32(2)), Val(a.left_margin))
        ends == U32Mul(Val(U32(2)), Val(a.top_margin))
    IN  IF a.orientation = "Portrait"
        THEN [w |-> U32Add(Val(U32(width)), sides),
              h |-> U32Add(U32Add(FoldDims(imgs, 2, Val(U32(0))), gaps), ends)]
        ELSE [w |-> U32Add(U32Add(FoldDims(imgs, 1, Val(U32(0))), gaps), sides),
              h |-> U32Add(Val(U32(height)), ends)]

\* Whether the build panics on an operation that overflowed.
Panics(checked) == build = "debug" /\ checked.ovf

\* Lines 181-204 and the start of the copy loop (210-211, 218-219).
Canvas ==
    /\ pc = "canvas"
    /\ LET size == CanvasSize(images, image_width, image_height, app)
           color == hex_to_color(app.background_color)
       IN  /\ ~Panics(size.w) /\ ~Panics(size.h)
           /\ color.ok
           /\ canvas' = Some([width |-> size.w.v, height |-> size.h.v,
                              color |-> color.rgba, copies |-> <<>>])
    /\ cursor' = [i |-> 1, x |-> app.left_margin, y |-> app.top_margin]
    /\ pc' = "copy"
    /\ UNCHANGED <<build, app, walk, downloads, paths, raw_megabytes, images, input,
                   image_width, image_height, num, saved, exit, stdin, download_dir,
                   unit>>

\* Lines 185-198 in a build with overflow checks, when the size overflows.
CanvasOverflow ==
    /\ pc = "canvas"
    /\ LET size == CanvasSize(images, image_width, image_height, app)
       IN  Panics(size.w) \/ Panics(size.h)
    /\ pc' = "done"
    /\ exit' = [code |-> 101, how |-> "panic: arithmetic overflow"]
    /\ UNCHANGED <<build, app, walk, downloads, paths, raw_megabytes, images, input,
                   image_width, image_height, canvas, cursor, num, saved, stdin,
                   download_dir, unit>>

\* Line 204: hex_to_color(&app.background_color)? returns the error.
CanvasBadColor ==
    /\ pc = "canvas"
    /\ LET size == CanvasSize(images, image_width, image_height, app)
       IN  ~Panics(size.w) /\ ~Panics(size.h)
    /\ ~hex_to_color(app.background_color).ok
    /\ pc' = "done"
    /\ exit' = [code |-> 1, how |-> "error: invalid colour"]
    /\ UNCHANGED <<build, app, walk, downloads, paths, raw_megabytes, images, input,
                   image_width, image_height, canvas, cursor, num, saved, stdin,
                   download_dir, unit>>

\* GenericImage::copy_from succeeds when the image, placed at (x, y), lies
\* within the canvas.
CopyFits(c, image, x, y) ==
    LET right == U32Add(Val(x), Val(U32(image[1])))
        bottom == U32Add(Val(y), Val(U32(image[2])))
    IN  /\ ~right.ovf /\ U32Le(right.v, c.width)
        /\ ~bottom.ovf /\ U32Le(bottom.v, c.height)

\* Lines 214 and 222: the cursor after an image.
Advance(cur, image, a) ==
    IF a.orientation = "Portrait"
    THEN [x |-> Val(cur.x),
          y |-> U32Add(Val(cur.y), U32Add(Val(U32(image[2])), Val(a.spacing)))]
    ELSE [x |-> U32Add(Val(cur.x), U32Add(Val(U32(image[1])), Val(a.spacing))),
          y |-> Val(cur.y)]

\* One turn of the copy loop (lines 212-215, 220-223).
CopyImage ==
    /\ pc = "copy"
    /\ cursor.i <= Len(images)
    /\ CopyFits(canvas[1], images[cursor.i], cursor.x, cursor.y)
    /\ LET next == Advance(cursor, images[cursor.i], app)
       IN  /\ ~Panics(next.x) /\ ~Panics(next.y)
           /\ cursor' = [i |-> cursor.i + 1, x |-> next.x.v, y |-> next.y.v]
    /\ canvas' = Some([canvas[1] EXCEPT !.copies =
                        Append(@, [image |-> images[cursor.i],
                                   x |-> cursor.x, y |-> cursor.y])])
    /\ UNCHANGED <<pc, build, app, walk, downloads, paths, raw_megabytes, images, input,
                   image_width, image_height, num, saved, exit, stdin, download_dir,
                   unit>>

\* Lines 213, 221: copy_from returns an error, which main returns.
CopyFail ==
    /\ pc = "copy"
    /\ cursor.i <= Len(images)
    /\ ~CopyFits(canvas[1], images[cursor.i], cursor.x, cursor.y)
    /\ pc' = "done"
    /\ exit' = [code |-> 1, how |-> "error: copy_from"]
    /\ UNCHANGED <<build, app, walk, downloads, paths, raw_megabytes, images, input,
                   image_width, image_height, canvas, cursor, num, saved, stdin,
                   download_dir, unit>>

\* Lines 214, 222 in a build with overflow checks: the image is copied, and
\* advancing the cursor overflows.
CopyOverflow ==
    /\ pc = "copy"
    /\ cursor.i <= Len(images)
    /\ CopyFits(canvas[1], images[cursor.i], cursor.x, cursor.y)
    /\ LET next == Advance(cursor, images[cursor.i], app)
       IN  Panics(next.x) \/ Panics(next.y)
    /\ canvas' = Some([canvas[1] EXCEPT !.copies =
                        Append(@, [image |-> images[cursor.i],
                                   x |-> cursor.x, y |-> cursor.y])])
    /\ pc' = "done"
    /\ exit' = [code |-> 101, how |-> "panic: arithmetic overflow"]
    /\ UNCHANGED <<build, app, walk, downloads, paths, raw_megabytes, images, input,
                   image_width, image_height, cursor, num, saved, stdin, download_dir,
                   unit>>

\* Lines 229-234: the downloads directory is found; the first candidate is
\* collage_0.png.
ResolveDir ==
    /\ pc = "copy"
    /\ cursor.i > Len(images)
    /\ download_dir
    /\ num' = 0
    /\ pc' = "probe"
    /\ UNCHANGED <<build, app, walk, downloads, paths, raw_megabytes, images, input,
                   image_width, image_height, canvas, cursor, saved, exit, stdin,
                   download_dir, unit>>

\* Lines 229-230: expect() panics.
ResolveDirPanic ==
    /\ pc = "copy"
    /\ cursor.i > Len(images)
    /\ ~download_dir
    /\ pc' = "done"
    /\ exit' = [code |-> 101, how |-> "panic: no download dir"]
    /\ UNCHANGED <<build, app, walk, downloads, paths, raw_megabytes, images, input,
                   image_width, image_height, canvas, cursor, num, saved, stdin,
                   download_dir, unit>>

\* A probe that finds no file: with it the first candidate is always taken.
NeverExists(n) == FALSE

\* Line 235: sketch.exists() for collage_<n>.png.
Exists(n) == n \in downloads

\* Lines 235-239: the candidate exists; the next one is tried.
Probe ==
    /\ pc = "probe"
    /\ Exists(num)
    /\ num' = num + 1
    /\ UNCHANGED <<pc, build, app, walk, downloads, paths, raw_megabytes, images, input,
                   image_width, image_height, canvas, cursor, saved, exit, stdin,
                   download_dir, unit>>

\* Lines 240-241: the candidate does not exist; the collage is saved to it.
Save ==
    /\ pc = "probe"
    /\ ~Exists(num)
    /\ saved' = Some(num)
    /\ pc' = "done"
    /\ exit' = [code |-> 0, how |-> "saved"]
    /\ UNCHANGED <<build, app, walk, downloads, paths, raw_megabytes, images, input,
                   image_width, image_height, canvas, cursor, num, stdin, download_dir,
                   unit>>

Next ==
    \/ Scan
    \/ SizeSmall
    \/ SizeLarge
    \/ Proceed
    \/ Cancel
    \/ SetDims
    \/ SetDimsPanic
    \/ Resize
    \/ Canvas
    \/ CanvasOverflow
    \/ CanvasBadColor
    \/ CopyImage
    \/ CopyFail
    \/ CopyOverflow
    \/ ResolveDir
    \/ ResolveDirPanic
    \/ Probe
    \/ Save

Spec == Init /\ [][Next]_vars

(***************************************************************************)
(* hex_to_color and prepare_image on their own: Init draws the arguments,   *)
(* the one action applies the function.                                     *)
(***************************************************************************)
Idle ==
    /\ pc = "idle"
    /\ build = "release"
    /\ app = DefaultApp
    /\ walk = <<>>
    /\ downloads = {}
    /\ paths = <<>>
    /\ raw_megabytes = 0
    /\ images = <<>>
    /\ input = <<>>
    /\ image_width = 0
    /\ image_height = 0
    /\ canvas = <<>>
    /\ cursor = [i |-> 0, x |-> U32(0), y |-> U32(0)]
    /\ num = 0
    /\ saved = <<>>
    /\ exit = Running
    /\ stdin = <<>>
    /\ download_dir = TRUE

HexChars == {"#", "+", "1", "f", "A", "g"}

InitHex ==
    /\ Idle
    /\ unit \in {[fn |-> "hex_to_color", arg |-> h, ret |-> <<>>] :
                    h \in SeqsUpTo(HexChars, MaxHexLen)}

CallHex ==
    /\ unit.fn = "hex_to_color"
    /\ unit.ret = <<>>
    /\ unit' = [unit EXCEPT !.ret = Some(hex_to_color(unit.arg))]
    /\ UNCHANGED <<pc, build, app, walk, downloads, paths, raw_megabytes, images, input,
                   image_width, image_height, canvas, cursor, num, saved, exit, stdin,
                   download_dir>>

SpecHex == InitHex /\ [][CallHex]_vars

\* Widths and heights from 1 to MaxDim, and those of the examples.
Dims == (1..MaxDim) \cup {50, 100, 200}

InitPrepare ==
    /\ Idle
    /\ unit \in {[fn |-> "prepare_image", arg |-> a, ret |-> <<>>] :
                    a \in [image : Dims \X Dims, width : Dims, height : Dims,
                           orientation : {"Portrait", "Landscape"},
                           preserve_aspect_ratio : BOOLEAN]}

CallPrepare ==
    /\ unit.fn = "prepare_image"
    /\ unit.ret = <<>>
    /\ unit' = [unit EXCEPT !.ret =
                  Some(prepare_image(unit.arg.image, unit.arg.width, unit.arg.height,
                                     unit.arg))]
    /\ UNCHANGED <<pc, build, app, walk, downloads, paths, raw_megabytes, images, input,
                   image_width, image_height, canvas, cursor, num, saved, exit, stdin,
                   download_dir>>

SpecPrepare == InitPrepare /\ [][CallPrepare]_vars

(***************************************************************************)
(* Natural numbers beyond 32 bits, for stating sizes and offsets without    *)
(* wrap-around: <<lo, hi, top>> is lo + hi * 2^16 + top * 2^32.             *)
(***************************************************************************)
XU32(a) == <<a[1], a[2], 0>>

XInt(n) == <<n % Limb, n \div Limb, 0>>

XAdd(a, b) ==
    LET s0 == a[1] + b[1]
        s1 == a[2] + b[2] + s0 \div Limb
    IN  <<s0 % Limb, s1 % Limb, a[3] + b[3] + s1 \div Limb>>

\* a * k for a small k.
XTimes(a, k) ==
    LET p0 == a[1] * k
        p1 == a[2] * k + p0 \div Limb
    IN  <<p0 % Limb, p1 % Limb, a[3] * k + p1 \div Limb>>

XLe(a, b) ==
    \/ a[3] < b[3]
    \/ a[3] = b[3] /\ a[2] < b[2]
    \/ a[3] = b[3] /\ a[2] = b[2] /\ a[1] <= b[1]

\* The sum of the widths (k = 1) or heights (k = 2) of the first j images.
SumDims(imgs, k, j) == SumSeq([i \in 1..j |-> imgs[i][k]])

(***************************************************************************)
(* The claims.                                                              *)
(***************************************************************************)
IsHexDigit(c) ==
    c \in {"0", "1", "2", "3", "4", "5", "6", "7", "8", "9",
           "a", "b", "c", "d", "e", "f", "A", "B", "C", "D", "E", "F"}

\* The two-digit hexadecimal number at positions i and i + 1 of s.
HexByte(s, i) == 16 * ToDigit16(s[i]) + ToDigit16(s[i + 1])

\* C1: hex_to_color accepts a string exactly when, after at most one leading
\* '#' is stripped, it is 6 hexadecimal digits, and then returns the bytes RR,
\* GG, BB with alpha 255; every other string, such as one with a '+', is an
\* error.
C1_HexAcceptsExactlySixDigits ==
    (unit # <<>> /\ unit.fn = "hex_to_color" /\ IsSome(unit.ret)) =>
        LET s == IF unit.arg # <<>> /\ unit.arg[1] = "#"
                 THEN SubSeq(unit.arg, 2, Len(unit.arg)) ELSE unit.arg
            valid == Len(s) = 6 /\ \A i \in 1..6 : IsHexDigit(s[i])
            r == unit.ret[1]
        IN  /\ r.ok <=> valid
            /\ valid => r.rgba = <<HexByte(s, 1), HexByte(s, 3), HexByte(s, 5), 255>>

\* The bytes of every entry of the directory whose length can be read.
TotalBytes == SumSeq([i \in 1..Len(walk) |-> IF IsSome(walk[i].len) THEN walk[i].len[1] ELSE 0])

\* C2: the prompt is requested exactly when the byte sizes of all enumerated
\* entries sum to more than 100 megabytes.
C2_PromptIffTotalOver100MB ==
    /\ pc = "prompt" => TotalBytes > 100 * 1000000
    /\ (pc = "dims" /\ input = <<>>) => TotalBytes <= 100 * 1000000

\* "y" and "yes" in every mix of upper and lower case.
YesAnswers ==
    {<<"y">>, <<"Y">>} \cup
    {<<a, b, c>> : a \in {"y", "Y"}, b \in {"e", "E"}, c \in {"s", "S"}}

\* The line is one of YesAnswers between white space.
IsYes(line) ==
    \E i \in 1..Len(line) : \E j \in i..Len(line) :
        /\ SubSeq(line, i, j) \in YesAnswers
        /\ \A k \in 1..Len(line) : (k < i \/ k > j) => line[k] \in {" ", "\n", "\r", "\t"}

\* The images as the scan left them: those of the entries that decode, in the
\* order of paths.
Loaded ==
    LET dec == SelectSeq(paths, LAMBDA q : IsSome(Lookup(q).img))
    IN  [i \in 1..Len(dec) |-> Lookup(dec[i]).img]

\* C3: when the prompt is shown, the run goes on only if the answer is "y" or
\* "yes" in any case; after every other answer, the empty one too, it ends with
\* status 0 and nothing later runs: no image is resized, no canvas composed, no
\* file written.
C3_OnlyYesProceeds ==
    /\ IsSome(input) => (exit.how = "cancelled" <=> ~IsYes(input[1]))
    /\ exit.how = "cancelled" =>
        /\ pc = "done" /\ exit.code = 0 /\ IsSome(input)
        /\ images = Loaded /\ canvas = <<>> /\ saved = <<>>
        /\ ~ENABLED Next

\* C3: a run cancelled by the answer "n".
C3_Witness == exit.how = "cancelled" /\ input = Some(<<"n", "\n">>)

\* a <= b in lexicographic order: a is a prefix of b, or a is smaller at the
\* first place where they differ.
LexLe(a, b) ==
    \/ Len(a) <= Len(b) /\ \A k \in 1..Len(a) : a[k] = b[k]
    \/ \E k \in 1..Len(a) : /\ k <= Len(b)
                            /\ a[k] < b[k]
                            /\ \A m \in 1..(k - 1) : a[m] = b[m]

\* The place of a path in the enumeration.
WalkIndex(path) == CHOOSE i \in 1..Len(walk) : walk[i].path = path

Decodes(path) == IsSome(Lookup(path).img)

\* C9: the images that reach the collage are exactly the entries that decode,
\* in ascending lexicographic order of the path string (entries whose strings
\* are equal in the order of enumeration); entries that do not decode are
\* skipped and leave the order of the others as it is.  The sequence is thus a
\* function of the directory.
C9_SortedDecodable ==
    pc \in {"check_size", "prompt", "dims", "resize"} =>
        /\ Len(paths) = Len(walk)
        /\ Range(paths) = {walk[i].path : i \in 1..Len(walk)}
        /\ \A i, j \in 1..Len(paths) : i < j =>
              /\ LexLe(ToStringLossy(paths[i]), ToStringLossy(paths[j]))
              /\ ToStringLossy(paths[i]) = ToStringLossy(paths[j]) =>
                    WalkIndex(paths[i]) < WalkIndex(paths[j])
        /\ images = Loaded
        /\ Len(images) = Cardinality({i \in 1..Len(walk) : IsSome(walk[i].img)})

\* C9: an entry that does not decode lies between two that do, and the
\* enumeration was not in sorted order.
C9_Witness ==
    /\ pc = "check_size"
    /\ \E i, j, k \in 1..Len(paths) :
          i < j /\ j < k /\ Decodes(paths[i]) /\ ~Decodes(paths[j]) /\ Decodes(paths[k])
    /\ paths # [i \in 1..Len(walk) |-> walk[i].path]
    /\ Len(images) = 2

\* C6: the writer saves to collage_<n>.png for the smallest n that is not
\* taken: the probe loop ends after at most as many steps as there are files,
\* no file that was there is overwritten, and with collage_0.png and
\* collage_1.png present the collage goes to collage_2.png.
C6_FirstUnusedName ==
    /\ pc = "probe" =>
          /\ num <= Cardinality(downloads)
          /\ \A k \in 0..(num - 1) : k \in downloads
    /\ IsSome(saved) =>
          /\ saved[1] \notin downloads
          /\ \A k \in 0..(saved[1] - 1) : k \in downloads
          /\ ({0, 1} \subseteq downloads /\ 2 \notin downloads) => saved[1] = 2
    /\ exit.how = "saved" <=> IsSome(saved)

\* C6: with collage_0.png and collage_1.png present, the collage was saved.
C6_Witness == downloads = {0, 1} /\ saved = Some(2) /\ pc = "done"

\* C7: with no decodable image the run is rejected by a check for the empty
\* result before anything else: images[0] is never evaluated on an empty
\* vector, n - 1 is never evaluated with n = 0, no file is written.
C7_EmptyRejectedByCheck ==
    /\ exit.how # "panic: index out of bounds"
    /\ (images = <<>> /\ pc \notin {"scan", "check_size", "prompt", "dims"}) =>
          /\ pc = "done" /\ exit.code # 0 /\ canvas = <<>> /\ saved = <<>>

\* C8: with aspect preservation, Portrait gives width = target width and
\* height = floor(target width * sh / sw); Landscape gives height = target
\* height and width = floor(target height * sw / sh).
C8_PreservedSizeIsFloor ==
    (unit # <<>> /\ unit.fn = "prepare_image" /\ IsSome(unit.ret)
        /\ unit.arg.preserve_aspect_ratio) =>
        LET a == unit.arg
            sw == a.image[1]
            sh == a.image[2]
        IN  IF a.orientation = "Portrait"
            THEN unit.ret[1] = <<a.width, (a.width * sh) \div sw>>
            ELSE unit.ret[1] = <<(a.height * sw) \div sh, a.height>>

\* The sizes of section 4.5, without wrap-around.
ExactCanvasWidth ==
    IF app.orientation = "Portrait"
    THEN XAdd(XInt(image_width), XTimes(XU32(app.left_margin), 2))
    ELSE XAdd(XAdd(XInt(SumDims(images, 1, Len(images))),
                   XTimes(XU32(app.spacing), Len(images) - 1)),
              XTimes(XU32(app.left_margin), 2))

ExactCanvasHeight ==
    IF app.orientation = "Portrait"
    THEN XAdd(XAdd(XInt(SumDims(images, 2, Len(images))),
                   XTimes(XU32(app.spacing), Len(images) - 1)),
              XTimes(XU32(app.top_margin), 2))
    ELSE XAdd(XInt(image_height), XTimes(XU32(app.top_margin), 2))

\* C4: for n >= 1 images the canvas is target width + 2 * left margin wide and
\* sum of heights + spacing * (n - 1) + 2 * top margin high in Portrait, and
\* target height + 2 * top margin high and sum of widths + spacing * (n - 1) +
\* 2 * left margin wide in Landscape.
C4_CanvasSizeFormulas ==
    IsSome(canvas) =>
        /\ Len(images) >= 1
        /\ XU32(canvas[1].width) = ExactCanvasWidth
        /\ XU32(canvas[1].height) = ExactCanvasHeight

\* The offset of the k-th image along the layout axis, without wrap-around:
\* margin + the extents of the images before it + (k - 1) * spacing.
ExactOffset(k, margin, dim) ==
    XAdd(XAdd(XU32(margin), XInt(SumDims(images, dim, k - 1))),
         XTimes(XU32(app.spacing), k - 1))

\* C5: the images are placed in their order: the k-th (from 0) at x = left
\* margin, y = top margin + heights of the images before it + k * spacing in
\* Portrait, and at y = top margin, x = left margin + widths of the images
\* before it + k * spacing in Landscape.
C5_PlacementInOrder ==
    IsSome(canvas) =>
        \A k \in 1..Len(canvas[1].copies) :
            LET c == canvas[1].copies[k]
            IN  /\ c.image = images[k]
                /\ IF app.orientation = "Portrait"
                   THEN /\ c.x = app.left_margin
                        /\ XU32(c.y) = ExactOffset(k, app.top_margin, 2)
                   ELSE /\ c.y = app.top_margin
                        /\ XU32(c.x) = ExactOffset(k, app.left_margin, 1)

\* C10: every image, at the offset computed for it, lies inside the canvas:
\* x + width <= canvas width and y + height <= canvas height, so no copy fails.
C10_ImagesFitCanvas ==
    /\ exit.how # "error: copy_from"
    /\ (pc = "copy" /\ cursor.i <= Len(images)) =>
          /\ XLe(XAdd(XU32(cursor.x), XInt(images[cursor.i][1])), XU32(canvas[1].width))
          /\ XLe(XAdd(XU32(cursor.y), XInt(images[cursor.i][2])), XU32(canvas[1].height))

====
